---- MODULE Spec2Model ----
(***************************************************************************)
(* A model of the recognition decision pipeline of svod_rcgn:              *)
(*   - the temporal debouncer  InVideoDetected                             *)
(*       (src/svod_rcgn/recognize/video_notify.py)                         *)
(*   - the classifier ensemble store and the score fusion of  Detector     *)
(*       (src/svod_rcgn/recognize/detector.py)                             *)
(*   - the command channel  SVODListener                                   *)
(*       (src/svod_rcgn/control/listener.py)                               *)
(*                                                                         *)
(* Conventions.                                                            *)
(*   Python None is the empty tuple <<>>; an optional value x is <<x>>     *)
(*   where the value itself is not already a tuple.                        *)
(*   A probability is an exact fraction <<num, den>> in lowest terms with  *)
(*   den > 0; time is counted in whole seconds.                            *)
(***************************************************************************)
EXTENDS Integers, Sequences, FiniteSets, TLC

(***************************************************************************)
(* Bounds of the model.                                                    *)
(***************************************************************************)
\* time() never returns more than MaxTime
MaxTime == 7
\* two consecutive reads of time() differ by at most MaxStep seconds
MaxStep == 2
\* frames arrive so that the window never holds more than MaxWin samples
MaxWin == 3

None == <<>>

(***************************************************************************)
(* Exact fractions.                                                        *)
(***************************************************************************)
RECURSIVE GCD(_, _)
GCD(a, b) == IF b = 0 THEN a ELSE GCD(b, a % b)

Frac(n, d) == LET g == GCD(n, d) IN IF n = 0 THEN <<0, 1>> ELSE <<n \div g, d \div g>>

FLess(a, b) == a[1] * b[2] < b[1] * a[2]

FLeq(a, b) == a[1] * b[2] <= b[1] * a[2]

FMul(a, b) == Frac(a[1] * b[1], a[2] * b[2])

FAdd(a, b) == Frac(a[1] * b[2] + b[1] * a[2], a[2] * b[2])

FSub(a, b) == LET n == a[1] * b[2] - b[1] * a[2]
                  d == a[2] * b[2]
              IN  IF n >= 0 THEN Frac(n, d)
                  ELSE LET p == Frac(-n, d) IN <<-p[1], p[2]>>

FDivInt(a, k) == Frac(a[1], a[2] * k)

Zero == <<0, 1>>

One == <<1, 1>>

\* max(0, min(1, x))
Clamp01(x) == IF FLess(x, Zero) THEN Zero ELSE IF FLess(One, x) THEN One ELSE x

RECURSIVE SumSeq(_)
SumSeq(s) == IF s = <<>> THEN 0 ELSE Head(s) + SumSeq(Tail(s))

(***************************************************************************)
(* The temporal debouncer: state of the class InVideoDetected and of its   *)
(* one instance.                                                           *)
(***************************************************************************)
VARIABLES
    notify_period,          \* class attribute
    notify_prob,            \* class attribute
    stay_notified,          \* class attribute
    cls_prob,               \* class attribute `prob` (None until assigned)
    done,
    prob,
    not_detected_anymore,
    in_frames,
    in_frames_ts,
    notified_awaiting,
    notified,
    notified_ts,
    looks_like,
    image,
    clock,                  \* the last value time() returned
    last,                   \* the last call made and what it returned
    polled,                 \* make_notify was called since the last processed frame
    lapse,                  \* some processed frame was not followed by a make_notify
    h_unread,               \* idle->notified transitions since the last make_notify
    h_trues,                \* True returns of make_notify since the last transition
    h_phase,                \* 0 never notified, 1 notified, 2 idle again, 3 notified again
    h_prunes,               \* processed calls whose while loop deleted a sample (up to 2)
    h_best                  \* the highest-confidence verdict that came with a frame

dvars == <<notify_period, notify_prob, stay_notified, cls_prob, done, prob,
           not_detected_anymore, in_frames, in_frames_ts, notified_awaiting,
           notified, notified_ts, looks_like, image, clock, last, polled, lapse,
           h_unread, h_trues, h_phase, h_prunes, h_best>>

\* state of the one Detector (see below)
VARIABLES
    model_dir,              \* bool(self.model_dir)
    debug,                  \* self.debug
    use_classifiers,        \* self.use_classifiers
    classifiers,            \* self.classifiers, a DetectorClassifiers
    tlast                   \* the last call made on the detector and how it ended

tvars == <<model_dir, debug, use_classifiers, classifiers, tlast>>

\* process_output applied to one embedding and a one-classifier ensemble: the
\* call's inputs, and what it returned (None before the call)
VARIABLES rule_in, rule_out

rvars == <<rule_in, rule_out>>

\* a thread in load_classifiers and a thread in process_frame, on one Detector
VARIABLES
    lpc,                    \* the loader's position: "idle" or the line it is about to run
    lnew,                   \* the loader's local `new` (None until built)
    rpc,                    \* the reader's position: "idle" or the line it is about to run
    r_size,                 \* the width of the embedding the reader is scoring
    r_list,                 \* the list the reader's for loop enumerates
    r_clfi,                 \* the reader's clfi (counted from 1)
    r_seen,                 \* the values of self.classifiers the reader has read for this face
    r_end                   \* how the reader's last call ended

cvars == <<lpc, lnew, rpc, r_size, r_list, r_clfi, r_seen, r_end>>

\* the command channel: the REP socket of one SVODListener and its one caller
VARIABLES
    sock,                   \* the REP socket's state: "recv" (awaits a request) or "send"
    inbox,                  \* the requests sent by clients and not yet received
    kpc,                    \* the caller's position: "caller", or the line of listen() it is at
    cur,                    \* the exception the except clause is handling (None outside it)
    owed,                   \* the request received and not yet replied to (None if none)
    h_sent_n,               \* requests the clients have sent
    h_recv,                 \* requests received by socket.recv
    h_replies,              \* the replies sent, in order
    klast                   \* the last step of the listener's thread

lvars == <<sock, inbox, kpc, cur, owed, h_sent_n, h_recv, h_replies, klast>>

\* what the actions of one component leave alone
not_debouncer == <<tvars, rvars, cvars, lvars>>

not_detector == <<dvars, rvars, cvars, lvars>>

not_rules == <<dvars, tvars, cvars, lvars>>

not_reload == <<dvars, rvars, lvars, model_dir, debug, tlast>>

not_listener == <<dvars, tvars, rvars, cvars>>

\* the fields of the instance
fields == <<done, prob, not_detected_anymore, in_frames, in_frames_ts,
            notified_awaiting, notified, notified_ts, looks_like, image>>

\* the class attributes
attrs == <<notify_period, notify_prob, stay_notified, cls_prob>>

\* the values of the command line a run is configured with
ArgPeriods == {2}

ArgProbs == {<<1, 4>>}

ArgStays == {2}

\* a verdict handed to exists_in_frame: looks_like, prob (None or a fraction), bbox
Verdicts ==
    { [looks_like |-> <<"b", "a">>, prob |-> <<1, 4>>, bbox |-> 1],
      [looks_like |-> <<>>,         prob |-> <<3, 4>>, bbox |-> 2],
      [looks_like |-> <<>>,         prob |-> None,     bbox |-> 3] }

Frames == {None, <<"f">>}

\* images.crop_by_box(frame, bbox)
crop_by_box(frame, bbox) == <<frame[1], bbox>>

\* the order sort() puts the names in
NameRank(x) == IF x = "a" THEN 1 ELSE 2

\* list(set(xs)) followed by sort(): the sorted sequence of the distinct elements
RECURSIVE SortedSeqOf(_)
SortedSeqOf(S) ==
    IF S = {} THEN <<>>
    ELSE LET m == CHOOSE x \in S : \A y \in S : NameRank(x) <= NameRank(y)
         IN  <<m>> \o SortedSeqOf(S \ {m})

Range(s) == { s[i] : i \in 1..Len(s) }

\* a plausible slip: an `if` where line 35 has `while`
PruneCount_Once(ts, now, period) ==
    IF Len(ts) > 1 /\ now - ts[1] > period THEN 1 ELSE 0

\* lines 35-38: the while loop; the number of samples it deletes from the front
RECURSIVE PruneCount(_, _, _)
PruneCount(ts, now, period) ==
    IF Len(ts) > 1 /\ now - ts[1] > period
    THEN 1 + PruneCount(Tail(ts), now, period)
    ELSE 0

DropFirst(s, n) == SubSeq(s, n + 1, Len(s))

\* the number of samples the window holds after a processed call at time now
WindowAfter(now) ==
    Len(in_frames) + 1 - PruneCount(Append(in_frames_ts, now), now, notify_period)

\* line 40: sum(self.in_frames) / len(self.in_frames)
WindowProb(frames) == Frac(SumSeq(frames), Len(frames))

\* InVideoDetected.__init__ and the class body
DInit ==
    /\ notify_period = 3
    /\ notify_prob = <<1, 2>>
    /\ stay_notified = 120
    /\ cls_prob = None
    /\ done = FALSE
    /\ prob = Zero
    /\ not_detected_anymore = FALSE
    /\ in_frames = <<>>
    /\ in_frames_ts = <<>>
    /\ notified_awaiting = FALSE
    /\ notified = FALSE
    /\ notified_ts = None
    /\ looks_like = <<>>
    /\ image = None
    /\ clock = 0
    /\ last = [op |-> "__init__"]
    /\ polled = TRUE
    /\ lapse = FALSE
    /\ h_unread = 0
    /\ h_trues = 0
    /\ h_phase = 0
    /\ h_prunes = 0
    /\ h_best = [conf |-> Zero, image |-> None]

\* init_in_video_detected(args): rebinds the class attributes, whenever called
init_in_video_detected(period, p, stay) ==
    /\ notify_period' = period
    /\ cls_prob' = p
    /\ stay_notified' = stay
    /\ last' = [op |-> "init_in_video_detected"]
    /\ UNCHANGED not_debouncer
    /\ UNCHANGED <<notify_prob, fields, clock, polled, lapse, h_unread, h_trues, h_phase,
                   h_prunes, h_best>>

\* InVideoDetected.prepare
prepare ==
    /\ done' = FALSE
    /\ last' = [op |-> "prepare"]
    /\ UNCHANGED not_debouncer
    /\ UNCHANGED <<attrs, prob, not_detected_anymore, in_frames, in_frames_ts,
                   notified_awaiting, notified, notified_ts, looks_like, image,
                   clock, polled, lapse, h_unread, h_trues, h_phase, h_prunes, h_best>>

\* a plausible slip: the comparison of line 42 inverted
Expired_Inverted(period_filled, now) ==
    period_filled /\ notified /\ now - notified_ts[1] < stay_notified

\* line 41-44: the notified state has outlived stay_notified
Expired(period_filled, now) ==
    period_filled /\ notified /\ now - notified_ts[1] > stay_notified

\* a plausible slip: line 45 without its `not self.notified`
Crossing_Unguarded(period_filled, p, is_notified) ==
    period_filled /\ FLess(notify_prob, p)

\* line 45: the window probability is above the threshold and the state is idle
Crossing(period_filled, p, is_notified) ==
    period_filled /\ FLess(notify_prob, p) /\ ~is_notified

\* a plausible slip: the recompute waits for the second call that prunes
PeriodFilled_SkipsFirst(n) == n > 0 /\ h_prunes > 0

\* lines 34-39: period_filled, set by the while loop as soon as it deletes a sample
PeriodFilled(n) == n > 0

\* line 56: the verdict's confidence beats self.prob and there is a frame to crop
Snapshot(processed, frame, p) ==
    /\ processed # None
    /\ processed[1].prob # None
    /\ FLess(p, processed[1].prob)
    /\ frame # None

\* a plausible slip: the call does not look at self.done
Skipped_Never == FALSE

\* line 29: the call does nothing when self.done is set
Skipped == done

\* InVideoDetected.exists_in_frame(processed, frame), time() returning now
exists_in_frame(processed, frame, now) ==
    /\ UNCHANGED <<attrs, not_debouncer>>
    /\ IF Skipped
       THEN /\ UNCHANGED <<fields, clock, polled, lapse, h_unread, h_trues, h_phase,
                           h_prunes, h_best>>
            /\ last' = [op |-> "exists_in_frame", processed |-> FALSE,
                        period_filled |-> FALSE, edge |-> FALSE, reset |-> FALSE]
       ELSE LET frames1 == Append(in_frames, IF processed # None THEN 1 ELSE 0)
                ts1 == Append(in_frames_ts, now)
                n == PruneCount(ts1, now, notify_period)
                period_filled == PeriodFilled(n)
                prob1 == IF period_filled THEN WindowProb(DropFirst(frames1, n)) ELSE prob
                expired == Expired(period_filled, now)
                notified1 == IF expired THEN FALSE ELSE notified
                edge == Crossing(period_filled, prob1, notified1)
                snap == Snapshot(processed, frame, prob1)
            IN  /\ clock' = now
                /\ in_frames' = DropFirst(frames1, n)
                /\ in_frames_ts' = DropFirst(ts1, n)
                /\ notified' = (edge \/ notified1)
                /\ notified_awaiting' = (edge \/ notified_awaiting)
                /\ notified_ts' = IF edge THEN <<now>>
                                  ELSE IF expired THEN None ELSE notified_ts
                /\ not_detected_anymore' =
                       ((period_filled /\ prob1 = Zero) \/ not_detected_anymore)
                /\ looks_like' =
                       IF processed # None /\ processed[1].looks_like # <<>>
                       THEN SortedSeqOf(Range(looks_like \o processed[1].looks_like))
                       ELSE looks_like
                /\ prob' = IF snap THEN processed[1].prob ELSE prob1
                /\ image' = IF snap THEN crop_by_box(frame, processed[1].bbox) ELSE image
                /\ done' = TRUE
                /\ last' = [op |-> "exists_in_frame", processed |-> TRUE,
                            period_filled |-> period_filled, edge |-> edge,
                            reset |-> expired]
                /\ polled' = FALSE
                /\ lapse' = (lapse \/ ~polled)
                /\ h_unread' = IF edge /\ h_unread < 2 THEN h_unread + 1 ELSE h_unread
                /\ h_trues' = IF edge THEN 0 ELSE h_trues
                /\ h_phase' = IF edge /\ ~expired /\ h_phase \in {0, 2} THEN h_phase + 1
                             ELSE IF expired /\ ~edge /\ h_phase = 1 THEN 2
                             ELSE h_phase
                /\ h_prunes' = IF n > 0 /\ h_prunes < 2 THEN h_prunes + 1 ELSE h_prunes
                /\ h_best' =
                       IF /\ processed # None /\ frame # None
                          /\ processed[1].prob # None
                          /\ FLess(h_best.conf, processed[1].prob)
                       THEN [conf |-> processed[1].prob,
                             image |-> crop_by_box(frame, processed[1].bbox)]
                       ELSE h_best

\* a plausible slip: the read leaves the pending flag set
AwaitingAfterRead_Kept(ret) == notified_awaiting

\* line 63: the read clears the pending flag
AwaitingAfterRead(ret) == IF ret THEN FALSE ELSE notified_awaiting

\* InVideoDetected.make_notify
make_notify ==
    LET ret == notified /\ notified_awaiting
    IN  /\ notified_awaiting' = AwaitingAfterRead(ret)
        /\ last' = [op |-> "make_notify", ret |-> ret]
        /\ UNCHANGED not_debouncer
        /\ polled' = TRUE
        /\ h_unread' = 0
        /\ h_trues' = IF ret /\ h_trues < 2 THEN h_trues + 1 ELSE h_trues
        /\ UNCHANGED <<attrs, done, prob, not_detected_anymore, in_frames, in_frames_ts,
                       notified, notified_ts, looks_like, image, clock, lapse, h_phase,
                       h_prunes, h_best>>

\* line 32: what time() can return; it is read only by a processed call
TimeReads == IF done THEN {clock} ELSE clock .. clock + MaxStep

DNext ==
    \/ \E period \in ArgPeriods, p \in ArgProbs, stay \in ArgStays :
           init_in_video_detected(period, p, stay)
    \/ prepare
    \/ \E processed \in {None} \cup { <<v>> : v \in Verdicts }, frame \in Frames,
          now \in TimeReads :
           /\ now <= MaxTime
           /\ done \/ WindowAfter(now) <= MaxWin
           /\ exists_in_frame(processed, frame, now)
    \/ make_notify

(***************************************************************************)
(* The classifier ensemble store and the score fusion: state of one        *)
(* Detector.  Class indices are counted from 1 here (Python counts from 0).*)
(***************************************************************************)
\* the faces of one frame are at most MaxFaces
MaxFaces == 2

\* line 143: the embedding size assumed for a model that is neither SVC nor kNN
DefaultEmbeddingSize == 512

\* DetectorClassifiers.__init__
DetectorClassifiers ==
    [classifiers |-> <<>>, classifier_names |-> <<>>, embedding_sizes |-> <<>>,
     class_names |-> None, class_stats |-> None]

\* The unpickled models.  kind is the model's type; features the number of
\* features it was fit on (shape_fit_[1], _fit_X.shape[1]); has_predict_proba
\* whether the object has the method.
SvmA == [kind |-> "SVC", features |-> 128, has_predict_proba |-> TRUE]

SvmB == [kind |-> "SVC", features |-> 512, has_predict_proba |-> TRUE]

KnnA == [kind |-> "KNeighborsClassifier", features |-> 128, has_predict_proba |-> TRUE]

\* some other estimator with predict_proba (a random forest, say)
OtherA == [kind |-> "other", features |-> 128, has_predict_proba |-> TRUE]

\* some other model without predict_proba (a LinearSVC, say)
OtherB == [kind |-> "other", features |-> 512, has_predict_proba |-> FALSE]

NamesA == <<"ann", "bob">>

NamesB == <<"ann", "eve">>

\* class_stats[c]['embeddings'] for each class c
StatsA == <<3, 2>>

StatsB == <<6, 2>>

\* line 132: the tuple a classifier file unpickles to
Artifact(clf, names, stats) == [clf |-> clf, class_names |-> names, class_stats |-> stats]

\* line 120: what glob can list in classifiers_dir, in listing order
Dirs ==
    { <<>>,
      <<Artifact(SvmA, NamesA, StatsA)>>,
      <<Artifact(KnnA, NamesA, StatsA), Artifact(SvmA, NamesA, StatsA)>>,
      <<Artifact(SvmA, NamesA, StatsA), Artifact(SvmB, NamesA, StatsA)>>,
      <<Artifact(OtherA, NamesA, StatsA), Artifact(KnnA, NamesA, StatsA),
        Artifact(SvmA, NamesA, StatsA)>>,
      <<Artifact(OtherB, NamesA, StatsA), Artifact(SvmB, NamesA, StatsA)>>,
      <<Artifact(SvmA, NamesA, StatsA), Artifact(KnnA, NamesB, StatsA)>>,
      <<Artifact(KnnA, NamesA, StatsA), Artifact(SvmA, NamesA, StatsB)>> }

\* "%d" % clfi
Decimal(n) == CASE n = 0 -> "0" [] n = 1 -> "1" [] n = 2 -> "2" [] OTHER -> "3"

\* lines 133-145: classifier_name of the model at position clfi (from 0)
ClassifierName(clf, clfi) ==
    IF clf.kind = "SVC" THEN "SVM"
    ELSE IF clf.kind = "KNeighborsClassifier" THEN "kNN"
    ELSE Decimal(clfi)

\* lines 133-145: embedding_size of the model
EmbeddingSize(clf) ==
    IF clf.kind \in {"SVC", "KNeighborsClassifier"} THEN clf.features
    ELSE DefaultEmbeddingSize

\* lines 147-150: the artifact's class names differ from those of the first one
NamesDiffer(new, art) == new.class_names # None /\ art.class_names # new.class_names

\* lines 151-154: the artifact's class stats differ from those of the first one
StatsDiffer(new, art) == new.class_stats # None /\ art.class_stats # new.class_stats

\* lines 124-157: the loop over the listed files, from file i on; the result is
\* the ensemble built, or "RuntimeError"
RECURSIVE LoadLoop(_, _, _)
LoadLoop(dir, i, new) ==
    IF i > Len(dir) THEN [raised |-> FALSE, new |-> new]
    ELSE LET art == dir[i]
         IN  IF NamesDiffer(new, art) \/ StatsDiffer(new, art)
             THEN [raised |-> TRUE, new |-> new]
             ELSE LoadLoop(dir, i + 1,
                     [classifiers |-> Append(new.classifiers, art.clf),
                      classifier_names |->
                          Append(new.classifier_names, ClassifierName(art.clf, i - 1)),
                      embedding_sizes |->
                          Append(new.embedding_sizes, EmbeddingSize(art.clf)),
                      class_names |-> art.class_names,
                      class_stats |-> art.class_stats])

\* Detector.__init__ (init() has run; load_classifiers is an action of its own)
TInit ==
    /\ model_dir \in BOOLEAN
    /\ debug \in BOOLEAN
    /\ use_classifiers = FALSE
    /\ classifiers = DetectorClassifiers
    /\ tlast = [op |-> "__init__"]

\* Detector.load_classifiers, glob listing dir
load_classifiers(dir) ==
    /\ UNCHANGED <<model_dir, debug, not_detector>>
    /\ IF ~model_dir
       THEN /\ UNCHANGED <<use_classifiers, classifiers>>
            /\ tlast' = [op |-> "load_classifiers", dir |-> dir, raised |-> FALSE]
       ELSE IF Len(dir) = 0
       THEN /\ use_classifiers' = FALSE
            /\ UNCHANGED classifiers
            /\ tlast' = [op |-> "load_classifiers", dir |-> dir, raised |-> FALSE]
       ELSE LET r == LoadLoop(dir, 1, DetectorClassifiers)
            IN  /\ use_classifiers' = ~r.raised
                /\ classifiers' = IF r.raised THEN classifiers ELSE r.new
                /\ tlast' = [op |-> "load_classifiers", dir |-> dir, raised |-> r.raised]

(***************************************************************************)
(* Score fusion.  What the library calls answer for one embedding is an    *)
(* input: for each classifier a record                                     *)
(*    row    predict_proba(output)[0], one probability per class           *)
(*    order  the classes _y[i] of the reference embeddings i, nearest first*)
(*    d      the distance to the nearest reference embedding               *)
(* The code does not rely on a row summing to 1.                           *)
(***************************************************************************)
\* np.argmax: the first position holding the greatest value
ArgMax(row) ==
    CHOOSE i \in 1..Len(row) :
        /\ \A j \in 1..Len(row) : FLeq(row[j], row[i])
        /\ \A j \in 1..(i - 1) : FLess(row[j], row[i])

\* a plausible slip: a raw count of the neighbours of the predicted class
FirstCnt_RawCount(nbrs, best) == Cardinality({ i \in 1..Len(nbrs) : nbrs[i] = best })

\* lines 199-202: the neighbours of the predicted class before the first other one
RECURSIVE FirstCnt(_, _)
FirstCnt(nbrs, best) ==
    IF nbrs = <<>> \/ Head(nbrs) # best THEN 0
    ELSE 1 + FirstCnt(Tail(nbrs), best)

\* line 208: max(0, min(1, 2 * first_cnt / cnt - .5)) * max(0, min(1, 2.5 - d * 3))
KnnProb(first_cnt, cnt, d) ==
    FMul(Clamp01(FSub(Frac(2 * first_cnt, cnt), <<1, 2>>)),
         Clamp01(FSub(<<5, 2>>, FMul(d, <<3, 1>>))))

\* line 196: kneighbors(output, n_neighbors=cnt) raises ValueError unless
\* 0 < cnt <= n_samples
KneighborsRaises(order, cnt) == cnt < 1 \/ cnt > Len(order)

\* lines 194-213: process_index of a kNN model; stats is class_stats
KnnProcessIndex(stats, best, order, d) ==
    LET cnt == stats[best]
    IN  IF KneighborsRaises(order, cnt) THEN [raised |-> TRUE]
        ELSE LET first_cnt == FirstCnt(SubSeq(order, 1, cnt), best)
             IN  [raised |-> FALSE,
                  prob |-> KnnProb(first_cnt, cnt, d),
                  label_debug |-> <<d, first_cnt, cnt>>]

\* a plausible slip: the factor 10 of line 220 left out
SvmProb_Unscaled(p) == Clamp01(p)

\* line 220: max(0, min(1, eval_values[idx] * 10))
SvmProb(p) == Clamp01(FMul(p, <<10, 1>>))

\* lines 217-220: process_index of an SVM model
SvmProcessIndex(row, best) ==
    [raised |-> FALSE, prob |-> SvmProb(row[best]), label_debug |-> <<row[best]>>]

\* lines 182-188: reshape or predict_proba raises ValueError, caught by the loop
ValueErrorCaught(ens, clfi, size) ==
    \/ ens.embedding_sizes[clfi] # size
    \/ (ens.classifiers[clfi].has_predict_proba
          /\ ens.classifiers[clfi].features # ens.embedding_sizes[clfi])

\* line 184: clf.predict_proba raises AttributeError, which nothing catches
AttributeErrorRaised(ens, clfi, size) ==
    /\ ens.embedding_sizes[clfi] = size
    /\ ~ens.classifiers[clfi].has_predict_proba

\* lines 174-178: the locals of process_output before the loop
FusionStart ==
    [raised |-> FALSE, detected_indices |-> <<>>, label_strings |-> <<>>,
     probs |-> <<>>, prob_detected |-> TRUE, summary_overlay_label |-> ""]

\* lines 227-241: one classifier's contribution added to the locals
Contribute(acc, ens, isdebug, clfi, best, pi) ==
    LET overlay_label == ens.class_names[best]
    IN  [raised |-> FALSE,
         detected_indices |-> Append(acc.detected_indices, best),
         label_strings |->
             IF isdebug
             THEN Append(acc.label_strings,
                         <<ens.classifier_names[clfi], pi.prob, overlay_label,
                           pi.label_debug>>)
             ELSE IF Len(acc.label_strings) = 0 THEN <<overlay_label>>
             ELSE acc.label_strings,
         probs |-> Append(acc.probs, pi.prob),
         prob_detected |-> (acc.prob_detected /\ ~FLeq(pi.prob, Zero)),
         summary_overlay_label |-> overlay_label]

\* lines 180-242: the loop over the classifiers, from classifier clfi on
RECURSIVE FuseLoop(_, _, _, _, _, _)
FuseLoop(ens, isdebug, size, resp, clfi, acc) ==
    IF clfi > Len(ens.classifiers) THEN acc
    ELSE LET clf == ens.classifiers[clfi]
             best == ArgMax(resp[clfi].row)
         IN  IF ValueErrorCaught(ens, clfi, size)
             THEN FuseLoop(ens, isdebug, size, resp, clfi + 1, acc)
             ELSE IF AttributeErrorRaised(ens, clfi, size)
             THEN [acc EXCEPT !.raised = TRUE]
             ELSE IF clf.kind = "KNeighborsClassifier"
             THEN LET pi == KnnProcessIndex(ens.class_stats, best,
                                            resp[clfi].order, resp[clfi].d)
                  IN  IF pi.raised THEN [acc EXCEPT !.raised = TRUE]
                      ELSE FuseLoop(ens, isdebug, size, resp, clfi + 1,
                                    Contribute(acc, ens, isdebug, clfi, best, pi))
             ELSE IF clf.kind = "SVC"
             THEN FuseLoop(ens, isdebug, size, resp, clfi + 1,
                           Contribute(acc, ens, isdebug, clfi, best,
                                      SvmProcessIndex(resp[clfi].row, best)))
             ELSE FuseLoop(ens, isdebug, size, resp, clfi + 1, acc)

\* a plausible slip: the probabilities are not looked at
Detected_IgnoresProbs(acc) == Cardinality(Range(acc.detected_indices)) = 1

\* line 245: detected if all classes are the same, and all probs are more than 0
Detected(acc) == Cardinality(Range(acc.detected_indices)) = 1 /\ acc.prob_detected

RECURSIVE FSum(_)
FSum(ps) == IF ps = <<>> THEN Zero ELSE FAdd(Head(ps), FSum(Tail(ps)))

\* a plausible slip: the sum is divided by the size of the ensemble
MeanProb_OverEnsemble(acc, ens) ==
    IF Detected(acc) THEN FDivInt(FSum(acc.probs), Len(ens.classifiers)) ELSE Zero

\* line 246: sum(probs) / len(probs) if detected else 0
MeanProb(acc, ens) ==
    IF Detected(acc) THEN FDivInt(FSum(acc.probs), Len(acc.probs)) ELSE Zero

\* lines 248-269: overlay_label_str, as the sequence of its lines
OverlayLabelStr(acc, ens, isdebug) ==
    IF isdebug
    THEN Append(acc.label_strings,
                IF Detected(acc)
                THEN <<"Summary", MeanProb(acc, ens), acc.summary_overlay_label>>
                ELSE <<"Summary: not detected">>)
    ELSE IF Detected(acc) THEN <<acc.label_strings[1]>>
    ELSE <<>>

\* lines 254-262: the box to draw
Overlay(bbox, thin) ==
    [bb |-> bbox, thin |-> thin, color |-> IF thin THEN <<0, 0, 255>> ELSE <<0, 255, 0>>]

\* Detector.process_output(output, bbox): the value returned, or raised
ProcessOutput(ens, isdebug, size, resp, bbox) ==
    LET acc == FuseLoop(ens, isdebug, size, resp, 1, FusionStart)
    IN  IF acc.raised THEN [raised |-> TRUE]
        ELSE LET str == OverlayLabelStr(acc, ens, isdebug)
                 thin == ~Detected(acc)
             IN  [raised |-> FALSE,
                  detected_indices |-> acc.detected_indices,
                  probs |-> acc.probs,
                  overlay |-> Overlay(bbox, thin),
                  label |-> IF str = <<>> THEN None
                            ELSE <<[label |-> str, bb |-> bbox,
                                    color |-> Overlay(bbox, thin).color]>>,
                  mean_prob |-> MeanProb(acc, ens)]

\* the widths the embedding network's output can have
EmbSizes == {128, 512}

\* rows predict_proba can answer with (two classes)
Rows ==
    { << <<9, 10>>, <<1, 10>> >>,
      << <<1, 20>>, <<0, 1>> >>,
      << <<0, 1>>, <<0, 1>> >>,
      << <<2, 5>>, <<3, 5>> >>,
      << <<1, 50>>, <<2, 25>> >> }

\* rows a kNN model's predict_proba can answer with: only the arg-max is used
KnnRows == { << <<1, 1>>, <<0, 1>> >>, << <<1, 3>>, <<2, 3>> >> }

\* orders of the five reference embeddings of KnnA, nearest first
Orders ==
    { <<1, 1, 1, 2, 2>>, <<1, 1, 2, 1, 2>>, <<1, 2, 1, 1, 2>>, <<2, 1, 1, 1, 2>>,
      <<2, 2, 1, 1, 1>> }

\* distances to the nearest reference embedding
Dists == { <<2, 5>>, <<7, 10>>, <<9, 10>> }

\* what the library calls on one classifier can answer
Responses(clf) ==
    IF clf.kind = "KNeighborsClassifier"
    THEN [row : KnnRows, order : Orders, d : Dists]
    ELSE IF clf.kind = "SVC"
    THEN [row : Rows, order : {<<>>}, d : {Zero}]
    ELSE [row : { << <<9, 10>>, <<1, 10>> >> }, order : {<<>>}, d : {Zero}]

\* the answers used when a whole frame is processed (a few per classifier)
FrameResponses(clf) ==
    IF clf.kind = "KNeighborsClassifier"
    THEN [row : { << <<9, 10>>, <<1, 10>> >> },
          order : { <<1, 1, 1, 2, 2>>, <<2, 1, 1, 1, 2>> }, d : { <<2, 5>> }]
    ELSE IF clf.kind = "SVC"
    THEN [row : { << <<9, 10>>, <<1, 10>> >>, << <<2, 5>>, <<3, 5>> >> },
          order : {<<>>}, d : {Zero}]
    ELSE [row : { << <<9, 10>>, <<1, 10>> >> }, order : {<<>>}, d : {Zero}]

\* the sequences of answers, one per classifier of the ensemble
RECURSIVE AnswerSeqs(_, _, _)
AnswerSeqs(clfs, i, wide) ==
    IF i > Len(clfs) THEN { <<>> }
    ELSE { <<h>> \o t :
             h \in (IF wide THEN Responses(clfs[i]) ELSE FrameResponses(clfs[i])),
             t \in AnswerSeqs(clfs, i + 1, wide) }

\* Detector.process_output(output, bbox) called on an embedding of width size
process_output(size, resp, bbox) ==
    /\ tlast' = [op |-> "process_output", size |-> size, resp |-> resp,
                 ret |-> ProcessOutput(classifiers, debug, size, resp, bbox)]
    /\ UNCHANGED <<model_dir, debug, use_classifiers, classifiers, not_detector>>

\* lines 293-309: the loop over the faces, from face i on
RECURSIVE FacesLoop(_, _, _, _, _)
FacesLoop(boxes, size, resps, i, acc) ==
    IF i > Len(boxes) THEN acc
    ELSE LET r == ProcessOutput(classifiers, debug, size, resps[i], boxes[i])
         IN  IF r.raised THEN [acc EXCEPT !.raised = TRUE]
             ELSE FacesLoop(boxes, size, resps, i + 1,
                    [raised |-> FALSE,
                     bounding_boxes_overlays |->
                         Append(acc.bounding_boxes_overlays, r.overlay),
                     labels |-> IF r.label # None
                                THEN Append(acc.labels, r.label[1])
                                ELSE acc.labels])

\* lines 287-288: the two lists process_frame returns, empty
FacesStart == [raised |-> FALSE, bounding_boxes_overlays |-> <<>>, labels |-> <<>>]

\* Detector.process_frame(frame): the value returned, or raised
ProcessFrame(boxes, size, resps) ==
    IF use_classifiers THEN FacesLoop(boxes, size, resps, 1, FacesStart)
    ELSE FacesStart

\* Detector.process_frame(frame), detect_faces finding boxes
process_frame(boxes, size, resps) ==
    /\ tlast' = [op |-> "process_frame", boxes |-> boxes,
                 ret |-> ProcessFrame(boxes, size, resps)]
    /\ UNCHANGED <<model_dir, debug, use_classifiers, classifiers, not_detector>>

\* line 286: the boxes detect_faces can find
BoxSeqs == { [i \in 1..n |-> i] : n \in 0..MaxFaces }

\* one sequence of answers per face
RECURSIVE FaceAnswers(_, _)
FaceAnswers(clfs, n) ==
    IF n = 0 THEN { <<>> }
    ELSE { <<h>> \o t : h \in AnswerSeqs(clfs, 1, FALSE), t \in FaceAnswers(clfs, n - 1) }

TNext ==
    \/ \E dir \in Dirs : load_classifiers(dir)
    \/ \E size \in EmbSizes, resp \in AnswerSeqs(classifiers.classifiers, 1, TRUE) :
           process_output(size, resp, 1)
    \/ \E boxes \in BoxSeqs, size \in EmbSizes :
         \E resps \in FaceAnswers(classifiers.classifiers, Len(boxes)) :
           process_frame(boxes, size, resps)

(***************************************************************************)
(* The specifications.  Each drives one component; the other one rests in  *)
(* its initial state.                                                      *)
(***************************************************************************)
(***************************************************************************)
(* The per-classifier rules on wider inputs: process_output of a detector  *)
(* in debug mode whose ensemble holds one classifier.                      *)
(***************************************************************************)
\* the greatest training count of a class
MaxK == 10

\* the sequences of n1 ones and n2 twos: the orders of a reference set
RECURSIVE Arrangements(_, _)
Arrangements(n1, n2) ==
    IF n1 = 0 /\ n2 = 0 THEN { <<>> }
    ELSE (IF n1 > 0 THEN { <<1>> \o t : t \in Arrangements(n1 - 1, n2) } ELSE {})
         \cup
         (IF n2 > 0 THEN { <<2>> \o t : t \in Arrangements(n1, n2 - 1) } ELSE {})

\* class_stats of the artifact: the training counts of the two classes
RuleStats == { <<3, 2>>, <<MaxK, 2>> }

\* the orders of the reference sets the kNN models were fit on
RuleOrders == Arrangements(3, 2) \cup Arrangements(MaxK, 2)

RuleDists == { <<0, 1>>, <<2, 5>>, <<1, 2>>, <<7, 10>>, <<5, 6>>, <<9, 10>> }

RulePs == { <<0, 1>>, <<1, 50>>, <<1, 20>>, <<1, 10>>, <<3, 25>>, <<1, 2>>, <<1, 1>> }

\* load_classifiers on a directory holding the one artifact
OneClassifier(clf, stats) ==
    LoadLoop(<<Artifact(clf, NamesA, stats)>>, 1, DetectorClassifiers).new

RuleInputs ==
    [ens : { OneClassifier(KnnA, st) : st \in RuleStats }, size : {128},
     resp : { <<r>> : r \in [row : KnnRows, order : RuleOrders, d : RuleDists] }]
    \cup
    [ens : { OneClassifier(SvmA, <<3, 2>>) }, size : {128},
     resp : { <<r>> : r \in [row : RulePs \X RulePs, order : {<<>>}, d : {Zero}] }]

RInit == rule_in \in RuleInputs /\ rule_out = None

\* the rules not exercised
RIdle ==
    /\ rule_in = [ens |-> DetectorClassifiers, size |-> 128, resp |-> <<>>]
    /\ rule_out = None

\* process_output on the embedding, the one classifier being a kNN model
knn_process_output ==
    /\ rule_out = None
    /\ rule_in.ens.classifiers[1].kind = "KNeighborsClassifier"
    /\ rule_out' = <<ProcessOutput(rule_in.ens, TRUE, rule_in.size, rule_in.resp, 1)>>
    /\ UNCHANGED <<rule_in, not_rules>>

\* process_output on the embedding, the one classifier being an SVM model
svm_process_output ==
    /\ rule_out = None
    /\ rule_in.ens.classifiers[1].kind = "SVC"
    /\ rule_out' = <<ProcessOutput(rule_in.ens, TRUE, rule_in.size, rule_in.resp, 1)>>
    /\ UNCHANGED <<rule_in, not_rules>>

RNext == knn_process_output \/ svm_process_output

(***************************************************************************)
(* A reload concurrent with the scoring of a face.  The code takes no lock;*)
(* the threads interleave between two reads or writes of an attribute of   *)
(* the Detector.  The loader builds `new` privately (lines 120-157) and    *)
(* then stores it; the reader evaluates self.classifiers afresh at lines   *)
(* 180, 183, 229, 195 and 234.                                             *)
(***************************************************************************)
CIdle ==
    /\ lpc = "idle"
    /\ lnew = None
    /\ rpc = "idle"
    /\ r_size = 128
    /\ r_list = <<>>
    /\ r_clfi = 0
    /\ r_seen = {}
    /\ r_end = "none"

\* lines 115-118: load_classifiers is entered and clears use_classifiers
reload_118 ==
    /\ lpc = "idle"
    /\ model_dir
    /\ use_classifiers' = FALSE
    /\ lpc' = "l120"
    /\ UNCHANGED <<classifiers, lnew, rpc, r_size, r_list, r_clfi, r_seen, r_end, not_reload>>

\* lines 120-157: the files are listed and unpickled into the local `new`
reload_120(dir) ==
    /\ lpc = "l120"
    /\ LET r == LoadLoop(dir, 1, DetectorClassifiers)
       IN  IF Len(dir) = 0 \/ r.raised
           THEN lpc' = "idle" /\ lnew' = None
           ELSE lpc' = "l159" /\ lnew' = <<r.new>>
    /\ UNCHANGED <<use_classifiers, classifiers, rpc, r_size, r_list, r_clfi, r_seen,
                   r_end, not_reload>>

\* line 159: self.classifiers = new
reload_159 ==
    /\ lpc = "l159"
    /\ classifiers' = lnew[1]
    /\ lpc' = "l160"
    /\ UNCHANGED <<use_classifiers, lnew, rpc, r_size, r_list, r_clfi, r_seen, r_end,
                   not_reload>>

\* line 160: self.use_classifiers = True
reload_160 ==
    /\ lpc = "l160"
    /\ use_classifiers' = TRUE
    /\ lpc' = "idle"
    /\ lnew' = None
    /\ UNCHANGED <<classifiers, rpc, r_size, r_list, r_clfi, r_seen, r_end, not_reload>>

\* what the loader and the shared attributes keep during a step of the reader
reader_keeps == <<use_classifiers, classifiers, lpc, lnew, not_reload>>

\* line 289: process_frame tests use_classifiers for a frame with one face
read_289(size) ==
    /\ rpc = "idle"
    /\ r_size' = size
    /\ r_seen' = {}
    /\ r_list' = <<>>
    /\ r_clfi' = 0
    /\ IF use_classifiers
       THEN rpc' = "l180" /\ r_end' = "none"
       ELSE rpc' = "idle" /\ r_end' = "no classifiers"
    /\ UNCHANGED reader_keeps

\* line 180: enumerate(self.classifiers.classifiers)
read_180 ==
    /\ rpc = "l180"
    /\ r_list' = classifiers.classifiers
    /\ r_seen' = {classifiers}
    /\ r_clfi' = 1
    /\ rpc' = "l183"
    /\ UNCHANGED <<r_size, r_end, reader_keeps>>

\* the for loop moves on to the next classifier
NextClassifier ==
    /\ r_clfi' = r_clfi + 1
    /\ rpc' = "l183"
    /\ UNCHANGED <<r_end>>

\* the call ends: returned, or left by an exception
ReaderEnds(how) ==
    /\ rpc' = "idle"
    /\ r_end' = how
    /\ UNCHANGED <<r_clfi>>

\* lines 180-225: the loop ends, or self.classifiers.embedding_sizes[clfi] is read
\* and the model of this turn is asked for predict_proba
read_183 ==
    /\ rpc = "l183"
    /\ UNCHANGED <<r_size, r_list, reader_keeps>>
    /\ IF r_clfi > Len(r_list)
       THEN ReaderEnds("returned") /\ UNCHANGED r_seen
       ELSE /\ r_seen' = r_seen \cup {classifiers}
            /\ IF r_clfi > Len(classifiers.embedding_sizes)
               THEN ReaderEnds("IndexError")
               ELSE LET clf == r_list[r_clfi]
                        size == classifiers.embedding_sizes[r_clfi]
                    IN  IF size # r_size \/ (clf.has_predict_proba /\ clf.features # size)
                        THEN NextClassifier
                        ELSE IF ~clf.has_predict_proba
                        THEN ReaderEnds("AttributeError")
                        ELSE IF clf.kind \in {"KNeighborsClassifier", "SVC"}
                        THEN rpc' = "l229" /\ UNCHANGED <<r_clfi, r_end>>
                        ELSE NextClassifier

\* line 229: self.classifiers.class_names[...]
read_229 ==
    /\ rpc = "l229"
    /\ r_seen' = r_seen \cup {classifiers}
    /\ rpc' = IF r_list[r_clfi].kind = "KNeighborsClassifier" THEN "l195" ELSE "l234"
    /\ UNCHANGED <<r_size, r_list, r_clfi, r_end, reader_keeps>>

\* line 195, reached from line 231: self.classifiers.class_stats[...]
read_195 ==
    /\ rpc = "l195"
    /\ r_seen' = r_seen \cup {classifiers}
    /\ rpc' = "l234"
    /\ UNCHANGED <<r_size, r_list, r_clfi, r_end, reader_keeps>>

\* line 234: self.classifiers.classifier_names[clfi]
read_234 ==
    /\ rpc = "l234"
    /\ r_seen' = r_seen \cup {classifiers}
    /\ IF r_clfi > Len(classifiers.classifier_names)
       THEN ReaderEnds("IndexError")
       ELSE NextClassifier
    /\ UNCHANGED <<r_size, r_list, reader_keeps>>

CNext ==
    \/ reload_118
    \/ \E dir \in Dirs : reload_120(dir)
    \/ reload_159
    \/ reload_160
    \/ \E size \in EmbSizes : read_289(size)
    \/ read_180
    \/ read_183
    \/ read_229
    \/ read_195
    \/ read_234

(***************************************************************************)
(* The command channel.  SVODListener owns a zmq REP socket, which is      *)
(* strictly alternating: recv while a reply is owed and send while none is *)
(* owed both raise ZMQError.  The caller of listen() and result() is not   *)
(* part of the sources; it may call either at any time.                    *)
(***************************************************************************)
\* the clients send at most MaxRequests requests
MaxRequests == 3

\* line 29: the exceptions a received request can raise at line 24, in
\* pickle.loads or in the unpacking into (command, data).  All but SystemExit
\* are subclasses of Exception.
DecodeExceptions ==
    {"UnpicklingError", "EOFError", "ValueError", "TypeError", "UnicodeDecodeError",
     "AttributeError", "ModuleNotFoundError", "OverflowError", "KeyError",
     "KeyError(sys.stdout)", "SystemExit"}

\* what a client can send:
\*   "reload"  the pickle of the pair ('reload', data)
\*   "error"   the pickle of the pair ('error', data)
\*   "ab"      the pickle of a two-character string, which unpacks into a pair
\*   an exception of DecodeExceptions: bytes that raise it at line 24, such as
\*       UnpicklingError     b'junk'
\*       EOFError            no bytes, b'('
\*       ValueError          the pickle of a tuple of one or of three elements,
\*                           b'I12abc\n.'
\*       TypeError           the pickle of an integer
\*       UnicodeDecodeError  b'V\\u00zz\n.'
\*       AttributeError      b'cos\nnope\n.'
\*       ModuleNotFoundError b'cnomodule\nfoo\n.'
\*       OverflowError       b'\x8e' followed by eight bytes 0xff
\*       KeyError            b'coperator\ngetitem\n(}I1\ntR.', which looks 1 up in {}
\*       KeyError(sys.stdout)  b'coperator\ngetitem\n(}csys\nstdout\ntR.', which
\*                           looks sys.stdout up in {}: the exception holds the
\*                           stream, and does not pickle
\*       SystemExit          b'csys\nexit\n(tR.', a pickle that calls sys.exit
Requests == {"reload", "error", "ab"} \cup DecodeExceptions

\* line 24: the command the unpacking binds
Command(msg) == IF msg = "ab" THEN "a" ELSE msg

\* the queue without its i-th request
RemoveAt(q, i) == SubSeq(q, 1, i - 1) \o SubSeq(q, i + 1, Len(q))

\* SVODListener.__init__
LIdle ==
    /\ sock = "recv"
    /\ inbox = <<>>
    /\ kpc = "caller"
    /\ cur = None
    /\ owed = None
    /\ h_sent_n = 0
    /\ h_recv = 0
    /\ h_replies = <<>>
    /\ klast = [op |-> "__init__"]

\* a client sends a request
client_send(req) ==
    /\ h_sent_n < MaxRequests
    /\ inbox' = Append(inbox, req)
    /\ h_sent_n' = h_sent_n + 1
    /\ UNCHANGED <<sock, kpc, cur, owed, h_recv, h_replies, klast, not_listener>>

\* lines 24-27: the exception the received bytes raise, None if they are returned:
\* pickle.loads fails, or the unpacking into (command, data) fails, or the
\* command is "error"
Raised(msg) ==
    IF msg = "error" THEN <<"ValueError">>
    ELSE IF msg \in DecodeExceptions THEN <<msg>>
    ELSE None

\* line 29: `except Exception` catches the exception
Caught(exc) == exc # "SystemExit"

\* line 34: pickle.dumps(err) returns; it raises TypeError for a value that
\* holds something that does not pickle
Pickles(err) == err \notin {"KeyError(sys.stdout)", "unpicklable"}

\* line 34: the call socket.send(pickle.dumps(err)) sends the reply; it raises
\* in pickle.dumps, or ZMQError in send when no reply is owed
Sends(err) == Pickles(err) /\ sock = "send"

\* line 34: socket.send(pickle.dumps(err)), by whom
Send(err, who) ==
    IF Sends(err)
    THEN /\ sock' = "recv"
         /\ h_replies' = Append(h_replies, [req |-> owed[1], err |-> err, by |-> who])
         /\ owed' = None
    ELSE UNCHANGED <<sock, h_replies, owed>>

\* the caller calls listen()
listen ==
    /\ kpc = "caller"
    /\ kpc' = "l24"
    /\ klast' = [op |-> "listen"]
    /\ UNCHANGED <<sock, inbox, cur, owed, h_sent_n, h_recv, h_replies, not_listener>>

\* lines 24-29: socket.recv() returns or raises, the bytes are unpickled, and
\* listen() returns the pair, enters its except clause, or is left by an
\* exception the clause does not catch.  The socket
\* fair-queues its peers: recv hands over the request of any peer that has one
\* queued, not necessarily the one sent first.
listen_24 ==
    /\ kpc = "l24"
    /\ UNCHANGED <<h_sent_n, h_replies, not_listener>>
    /\ IF sock = "send"
       THEN /\ kpc' = "l31"
            /\ cur' = <<"ZMQError">>
            /\ klast' = [op |-> "recv", raised |-> TRUE]
            /\ UNCHANGED <<sock, inbox, owed, h_recv>>
       ELSE \E i \in 1 .. Len(inbox) :
            /\ inbox' = RemoveAt(inbox, i)
            /\ sock' = "send"
            /\ owed' = <<inbox[i]>>
            /\ h_recv' = h_recv + 1
            /\ IF Raised(inbox[i]) = None
               THEN /\ kpc' = "caller"
                    /\ cur' = None
                    /\ klast' = [op |-> "listen returned", ret |-> Command(inbox[i])]
               ELSE IF Caught(Raised(inbox[i])[1])
               THEN /\ kpc' = "l31"
                    /\ cur' = Raised(inbox[i])
                    /\ klast' = [op |-> "recv", raised |-> TRUE]
               ELSE /\ kpc' = "caller"
                    /\ cur' = None
                    /\ klast' = [op |-> "listen raised", exc |-> Raised(inbox[i])[1]]

\* lines 29-31: the except clause replies with the exception and the loop goes
\* on; when result(e) raises, the exception leaves listen()
listen_31 ==
    /\ kpc = "l31"
    /\ Send(cur[1], "listen")
    /\ kpc' = IF Sends(cur[1]) THEN "l24" ELSE "caller"
    /\ cur' = None
    /\ klast' = [op |-> "except", raised |-> ~Sends(cur[1])]
    /\ UNCHANGED <<inbox, h_sent_n, h_recv, not_listener>>

\* the caller calls result(err)
result(err) ==
    /\ kpc = "caller"
    /\ Send(err, "caller")
    /\ klast' = [op |-> "result", raised |-> ~Sends(err)]
    /\ UNCHANGED <<inbox, kpc, cur, h_sent_n, h_recv, not_listener>>

\* what the caller passes to result(): None, an error, or a value that does not
\* pickle
Errs == {"None", "RuntimeError", "unpicklable"}

LNext ==
    \/ \E req \in Requests : client_send(req)
    \/ listen
    \/ listen_24
    \/ listen_31
    \/ \E err \in Errs : result(err)

(***************************************************************************)
(* The specifications.  Each drives one component; the others rest in      *)
(* their initial states.                                                   *)
(***************************************************************************)
vars == <<dvars, tvars, rvars, cvars, lvars>>

\* the detector as constructed, not used
TIdle ==
    /\ model_dir = TRUE
    /\ debug = FALSE
    /\ use_classifiers = FALSE
    /\ classifiers = DetectorClassifiers
    /\ tlast = [op |-> "__init__"]

\* the debouncer in use
Init == DInit /\ TIdle /\ RIdle /\ CIdle /\ LIdle

Spec == Init /\ [][DNext]_vars

\* the detector in use
InitDetector == TInit /\ DInit /\ RIdle /\ CIdle /\ LIdle

SpecDetector == InitDetector /\ [][TNext]_vars

\* the per-classifier rules applied to drawn inputs
InitRules == RInit /\ DInit /\ TIdle /\ CIdle /\ LIdle

\* a reload running beside the scoring of faces
InitReload == TIdle /\ CIdle /\ DInit /\ RIdle /\ LIdle

SpecReload == InitReload /\ [][CNext]_vars

\* the command channel in use
InitListener == LIdle /\ DInit /\ TIdle /\ RIdle /\ CIdle

SpecListener == InitListener /\ [][LNext]_vars

SpecRules == InitRules /\ [][RNext]_vars

(***************************************************************************)
(* Properties of the debouncer.                                            *)
(***************************************************************************)
\* the step is a call of exists_in_frame that was processed (done was false)
ProcessedStep == last'.op = "exists_in_frame" /\ last'.processed

\* the step is a processed call whose while loop deleted at least one sample
RecomputeStep == ProcessedStep /\ last'.period_filled

\* the step is a call of make_notify
PollStep == last'.op = "make_notify"

\* C1 (state part): in one notified episode make_notify has returned True at most
\* once, and exactly once as soon as the episode's frame has been polled.
C1_OncePerEpisode ==
    notified => (h_trues <= 1 /\ (polled => h_trues = 1))

\* C1 (step part): a notified episode is neither ended nor restarted by a call
\* made within stay_notified seconds of the crossing, whatever the window
\* probability recomputed by that call.
C1_EpisodeLasts ==
    [][ notified =>
          \/ (notified' /\ notified_ts' = notified_ts)
          \/ clock' - notified_ts[1] > stay_notified ]_vars

\* C1: after the window probability crosses above the threshold, make_notify
\* returns True exactly once during the stay_notified seconds that follow, even
\* though the probability is recomputed by every call that prunes the window.
C1_EdgeTriggered == [] C1_OncePerEpisode /\ C1_EpisodeLasts

\* C1 witness: within stay_notified seconds of the crossing a later frame was
\* processed, the window probability is still above the threshold, and the poll
\* of that frame returned False after the one True.
C1_Witness ==
    /\ notified /\ ~lapse
    /\ last.op = "make_notify" /\ ~last.ret
    /\ clock > notified_ts[1]
    /\ clock - notified_ts[1] <= stay_notified
    /\ FLess(notify_prob, WindowProb(in_frames))
    /\ h_trues = 1

\* C2: a recomputing call made more than stay_notified seconds after the
\* notification returns the state to idle (notified false, notified_ts None)
\* unless the window probability is above the threshold; and a recomputing call
\* that finds the state idle (or just reset) with the window probability above the
\* threshold starts a new episode with the pending flag raised.
C2_Reset ==
    [][ RecomputeStep =>
          LET above == FLess(notify_prob, WindowProb(in_frames'))
              idle == ~notified \/ clock' - notified_ts[1] > stay_notified
          IN  /\ (idle /\ ~above) => (~notified' /\ notified_ts' = None)
              /\ (idle /\ above) =>
                    (notified' /\ notified_ts' = <<clock'>> /\ notified_awaiting') ]_vars

\* C2 witness: the state was notified, returned to idle, the window probability
\* crossed the threshold again in a later call, and make_notify reported it.
C2_Witness ==
    /\ h_phase = 3
    /\ last.op = "make_notify" /\ last.ret
    /\ notified /\ notified_ts = <<clock>>

\* C3 (state part): with make_notify polled after every processed frame, at most
\* one transition is waiting to be read.
C3_AtMostOnePending == ~lapse => h_unread <= 1

\* C3: with make_notify polled after every processed frame, a call of make_notify
\* returns True if and only if an idle->notified transition happened since the
\* previous call, so exactly once per transition and False on every other call.
C3_SingleShot ==
    /\ [] C3_AtMostOnePending
    /\ [][ (PollStep /\ ~lapse) => (last'.ret <=> h_unread = 1) ]_vars

\* C3 witness: a second poll of the same frame, right after the poll that
\* returned True, returns False.
C3_Witness ==
    /\ ~lapse /\ notified /\ polled
    /\ last.op = "make_notify" /\ ~last.ret
    /\ notified_ts = <<clock>>
    /\ h_trues = 1

(***************************************************************************)
(* Properties of the ensemble store and of the score fusion.               *)
(***************************************************************************)
\* the step is a call of load_classifiers that raised
FailedLoadStep == tlast'.op = "load_classifiers" /\ tlast'.raised

\* C4: a load_classifiers that raises (an artifact's class names or class stats
\* differ from the first one's) leaves the detector's ensemble state as it was:
\* self.classifiers keeps its value and use_classifiers keeps its value.
C4_FailedLoadUnchanged ==
    [][ FailedLoadStep =>
          (classifiers' = classifiers /\ use_classifiers' = use_classifiers) ]_vars

\* the last call was process_frame and it returned
FrameReturned == tlast.op = "process_frame" /\ ~tlast.ret.raised

\* C5: with use_classifiers false, process_frame returns one box for every face
\* box the detector found, each drawn as not detected, and no labels.
C5_DetectionOnlyBoxes ==
    (FrameReturned /\ ~use_classifiers) =>
        /\ Len(tlast.ret.bounding_boxes_overlays) = Len(tlast.boxes)
        /\ \A i \in 1..Len(tlast.ret.bounding_boxes_overlays) :
               /\ tlast.ret.bounding_boxes_overlays[i].thin
               /\ tlast.ret.bounding_boxes_overlays[i].bb = tlast.boxes[i]
        /\ tlast.ret.labels = <<>>

\* the last call was process_output and it returned
OutputReturned == tlast.op = "process_output" /\ ~tlast.ret.raised

\* the face is reported as detected: the box is not thin
ReportedDetected(ret) == ~ret.overlay.thin

\* C6: process_output reports the face as detected if and only if at least one
\* classifier contributed, all contributing classifiers predicted the same class
\* index, and every contributing probability is strictly greater than 0.
C6_FusionVerdict ==
    OutputReturned =>
        LET ret == tlast.ret
            n == Len(ret.probs)
        IN  /\ Len(ret.detected_indices) = n
            /\ ReportedDetected(ret) <=>
                 /\ n >= 1
                 /\ \A i, j \in 1..n : ret.detected_indices[i] = ret.detected_indices[j]
                 /\ \A i \in 1..n : ret.probs[i][1] > 0

\* C6 witness: two classifiers predicted different classes, both with
\* probability 1, and the face is reported as not detected.
C6_Witness ==
    /\ OutputReturned
    /\ tlast.ret.detected_indices = <<1, 2>>
    /\ tlast.ret.probs = <<One, One>>
    /\ ~ReportedDetected(tlast.ret)

\* the numerator of the sum of the fractions ps over the denominator DenProd(ps)
RECURSIVE DenProd(_)
DenProd(ps) == IF ps = <<>> THEN 1 ELSE Head(ps)[2] * DenProd(Tail(ps))

RECURSIVE NumSum(_)
NumSum(ps) ==
    IF ps = <<>> THEN 0
    ELSE Head(ps)[1] * DenProd(Tail(ps)) + Head(ps)[2] * NumSum(Tail(ps))

\* C7: the confidence process_output returns is the arithmetic mean of the
\* contributing probabilities when the face is detected and 0 otherwise, and it
\* lies in [0, 1].
C7_FusedConfidence ==
    OutputReturned =>
        LET ret == tlast.ret
            m == ret.mean_prob
        IN  /\ ReportedDetected(ret) =>
                 m[1] * DenProd(ret.probs) * Len(ret.probs) = NumSum(ret.probs) * m[2]
            /\ ~ReportedDetected(ret) => m[1] = 0
            /\ 0 <= m[1] /\ m[1] <= m[2]

\* C7 witness: one classifier of three was skipped, the other two contributed 1
\* and 1/2, and the confidence is 3/4.
C7_Witness ==
    /\ OutputReturned
    /\ Len(classifiers.classifiers) = 3
    /\ tlast.ret.probs = <<One, <<1, 2>>>>
    /\ ReportedDetected(tlast.ret)
    /\ tlast.ret.mean_prob = <<3, 4>>

\* the classifiers of the ensemble that can contribute for an embedding of width
\* size: the embedding size matches and the kind is supported
Usable(ens, size) ==
    { clfi \in 1..Len(ens.classifiers) :
        /\ ens.embedding_sizes[clfi] = size
        /\ ens.classifiers[clfi].kind \in {"SVC", "KNeighborsClassifier"} }

\* C10: process_output returns a verdict for every ensemble and embedding, and
\* exactly the classifiers whose embedding size matches and whose kind is
\* supported contribute a class index and a probability.
C10_NeverAborts ==
    tlast.op = "process_output" =>
        /\ ~tlast.ret.raised
        /\ Len(tlast.ret.probs) = Cardinality(Usable(classifiers, tlast.size))

(***************************************************************************)
(* Properties of the per-classifier rules.                                 *)
(***************************************************************************)
ClampInt(x, lo, hi) == IF x < lo THEN lo ELSE IF x > hi THEN hi ELSE x

SameFrac(x, y) == x[1] * y[2] = y[1] * x[2]

\* the number of the first k entries of order that are of class best before the
\* first entry of another class
LeadingRun(order, best, k) ==
    CHOOSE n \in 0..k :
        /\ \A i \in 1..n : order[i] = best
        /\ n = k \/ order[n + 1] # best

\* clamp(0, 1, 2 * run / k - 0.5) * clamp(0, 1, 2.5 - 3 * d) as one fraction
ExpectedKnn(run, k, d) ==
    <<ClampInt(4 * run - k, 0, 2 * k) * ClampInt(5 * d[2] - 6 * d[1], 0, 2 * d[2]),
      4 * k * d[2]>>

\* the rule was applied to a kNN model and process_output returned
KnnReturned ==
    /\ rule_out # None
    /\ rule_in.ens.classifiers[1].kind = "KNeighborsClassifier"
    /\ ~rule_out[1].raised

\* C8: for a kNN classifier, with k the training count of the predicted class,
\* first_run the leading run of the predicted class among the k nearest
\* neighbours and d the distance to the nearest one, the probability is
\* clamp(0,1, 2*first_run/k - 0.5) * clamp(0,1, 2.5 - 3*d); k=10, first_run=7,
\* d=0.4 gives 0.9.
C8_KnnRule ==
    KnnReturned =>
        LET best == rule_out[1].detected_indices[1]
            k == rule_in.ens.class_stats[best]
            r == rule_in.resp[1]
            run == LeadingRun(r.order, best, k)
            pr == rule_out[1].probs[1]
        IN  /\ SameFrac(pr, ExpectedKnn(run, k, r.d))
            /\ (k = 10 /\ run = 7 /\ r.d = <<2, 5>>) => pr = <<9, 10>>

\* C8 witness: k=10, a leading run of 7 (nine of the ten nearest neighbours are
\* of the predicted class), d=0.4, probability 0.9.
C8_Witness ==
    /\ KnnReturned
    /\ Len(rule_in.resp[1].order) = 12
    /\ SubSeq(rule_in.resp[1].order, 1, 10) = <<1, 1, 1, 1, 1, 1, 1, 2, 1, 1>>
    /\ rule_out[1].label[1].label[1][4] = << <<2, 5>>, 7, 10 >>
    /\ rule_out[1].probs = << <<9, 10>> >>

\* the rule was applied to an SVM model
SvmApplied ==
    /\ rule_out # None
    /\ rule_in.ens.classifiers[1].kind = "SVC"

\* the greatest value of the row
RowMax(row) == CHOOSE p \in Range(row) : \A q \in Range(row) : FLeq(q, p)

\* C9: for an SVM classifier whose arg-max class probability is p, the
\* probability is clamp(0,1, 10*p): 0.05 gives 0.5, 0.12 gives 1.0, 0.0 gives 0.0,
\* and a probability of 0 makes the face not detected.
C9_SvmRule ==
    SvmApplied =>
        LET p == RowMax(rule_in.resp[1].row)
            ret == rule_out[1]
        IN  /\ ~ret.raised
            /\ Len(ret.probs) = 1
            /\ SameFrac(ret.probs[1], <<ClampInt(10 * p[1], 0, p[2]), p[2]>>)
            /\ p = <<1, 20>> => ret.probs[1] = <<1, 2>>
            /\ p = <<3, 25>> => ret.probs[1] = One
            /\ p = Zero => (ret.probs[1] = Zero /\ ~ReportedDetected(ret))
            /\ ReportedDetected(ret) <=> p[1] > 0

\* C9 witness: p = 0.05 gave 0.5 and the face is reported as detected.
C9_Witness ==
    /\ SvmApplied
    /\ RowMax(rule_in.resp[1].row) = <<1, 20>>
    /\ rule_out[1].probs = << <<1, 2>> >>
    /\ ReportedDetected(rule_out[1])


(***************************************************************************)
(* Further properties of the debouncer.                                    *)
(***************************************************************************)
\* the step is a processed call whose while loop deleted at least one sample,
\* read off the window: one sample was appended and the window did not grow
PruningStep == ProcessedStep /\ Len(in_frames') <= Len(in_frames)

\* the state is idle when the call decides: not notified, or notified for longer
\* than stay_notified
IdleAt == ~notified \/ clock' - notified_ts[1] > stay_notified

\* the recompute of lines 40-50 has acted in the step
Recomputed ==
    LET p == WindowProb(in_frames')
    IN  /\ prob' = p \/ FLess(p, prob')
        /\ (p = Zero) => not_detected_anymore'
        /\ (IdleAt /\ FLess(notify_prob, p)) =>
               (notified' /\ notified_ts' = <<clock'>> /\ notified_awaiting')
        /\ (IdleAt /\ ~FLess(notify_prob, p)) => (~notified' /\ notified_ts' = None)

\* the recompute of lines 40-50 has not acted in the step
NotRecomputed ==
    /\ UNCHANGED <<notified, notified_ts, notified_awaiting, not_detected_anymore>>
    /\ prob' = prob \/ FLess(prob, prob')

\* C11 as stated: the first processed call that prunes the window skips the
\* recompute, so it makes no idle/notified transition and leaves the probability
\* alone; the recompute fires from the second pruning call on.
C11_FirstPruneSkipsRecompute ==
    [][ (PruningStep /\ h_prunes = 0) => NotRecomputed ]_vars

\* C11 amended: the recompute fires on every processed call that prunes the
\* window, the very first included, and on no other call.
C11_RecomputeOnEveryPrune ==
    [][ ProcessedStep => IF PruningStep THEN Recomputed ELSE NotRecomputed ]_vars

\* C11 witness: the first call that pruned the window has made the idle->notified
\* transition.
C11_Witness ==
    /\ h_prunes = 1
    /\ last.op = "exists_in_frame" /\ last.processed /\ last.edge
    /\ notified /\ notified_awaiting /\ notified_ts = <<clock>>

\* init_in_video_detected has run
Configured == cls_prob # None

\* the threshold the run was configured with: args.notify_face_detection_prob,
\* which init_in_video_detected stores, or the default
ConfiguredProb == IF Configured THEN cls_prob ELSE <<1, 2>>

\* C12 (state part): without configuration the parameters are 3, 0.5 and 120;
\* with it the window span and the repeat-suppression period are the arguments.
C12_Parameters ==
    IF Configured
    THEN notify_period \in ArgPeriods /\ stay_notified \in ArgStays
    ELSE notify_period = 3 /\ notify_prob = <<1, 2>> /\ stay_notified = 120

\* C12: every parameter is configurable; a recomputing call that finds the state
\* idle notifies as soon as the window probability is above the configured
\* threshold (args.notify_face_detection_prob, 0.5 without configuration).
C12_Configurable ==
    /\ [] C12_Parameters
    /\ [][ (PruningStep /\ IdleAt /\ FLess(ConfiguredProb, WindowProb(in_frames')))
              => notified' ]_vars

\* C15: the stored snapshot is the crop of the highest-confidence verdict seen
\* (among the verdicts that came with a frame); it is replaced exactly when a
\* verdict beats the highest confidence seen so far.
C15_BestSeenSnapshot == image = h_best.image

\* samples are deleted from the front only: the new window is the old one with
\* the sample of this call appended and some of its first samples dropped
FrontPruned ==
    \E k \in 0 .. Len(in_frames), bit \in {0, 1} :
        /\ in_frames' = DropFirst(Append(in_frames, bit), k)
        /\ in_frames_ts' = DropFirst(Append(in_frames_ts, clock'), k)

\* C16 (state part): the two lists have the same length, the timestamps are in
\* non-decreasing order, and after a processed call the window is not empty and
\* holds one sample or spans at most notify_period.
C16_WindowShape ==
    /\ Len(in_frames) = Len(in_frames_ts)
    /\ \A i \in 1 .. Len(in_frames_ts) - 1 : in_frames_ts[i] <= in_frames_ts[i + 1]
    /\ (last.op = "exists_in_frame" /\ last.processed) =>
          /\ Len(in_frames) > 0
          /\ Len(in_frames) = 1 \/ clock - in_frames_ts[1] <= notify_period

\* C16: the presence-window invariant holds after every processed call, and a
\* processed call removes samples from the front only.
C16_PresenceWindow ==
    /\ [] C16_WindowShape
    /\ [][ ProcessedStep => FrontPruned ]_vars

\* C16 witness: a processed call has pruned the window down to a window of more
\* than one sample that spans exactly notify_period.
C16_Witness ==
    /\ last.op = "exists_in_frame" /\ last.processed /\ last.period_filled
    /\ Len(in_frames) > 1
    /\ clock - in_frames_ts[1] = notify_period

\* the fields of the instance other than done
samples == <<prob, not_detected_anymore, in_frames, in_frames_ts, notified_awaiting,
             notified, notified_ts, looks_like, image>>

\* C17: a call of exists_in_frame made while done is set changes no field; a
\* call that changes a field finds done clear and sets it; only prepare clears
\* done, and prepare changes nothing else.  So the state changes at most once
\* between two calls of prepare.
C17_OncePerPrepare ==
    /\ [][ (last'.op = "exists_in_frame" /\ done) => UNCHANGED <<samples, done>> ]_vars
    /\ [][ (last'.op = "exists_in_frame" /\ samples' # samples) => (~done /\ done') ]_vars
    /\ [][ (done /\ ~done') => last'.op = "prepare" ]_vars
    /\ [][ last'.op = "prepare" => (~done' /\ UNCHANGED <<samples, attrs>>) ]_vars

\* C17 witness: a second call of exists_in_frame in the same cycle has returned
\* without being processed, the window holding the sample of the first.
C17_Witness ==
    /\ last.op = "exists_in_frame" /\ ~last.processed
    /\ done /\ in_frames # <<>> /\ image # None


(***************************************************************************)
(* Properties of a reload concurrent with scoring.                         *)
(***************************************************************************)
\* C13: everything the reader reads of self.classifiers while it scores one face
\* (the models, the embedding sizes, the class names, the class stats, the
\* classifier names) comes from one and the same ensemble.
C13_AtomicSwap == Cardinality(r_seen) <= 1

(***************************************************************************)
(* Properties of the command channel.                                      *)
(***************************************************************************)
\* C14 (state part): every request received has exactly one reply, but for the
\* one still owed; a request that does not decode, or is the "error" command,
\* was answered inside listen() with the exception and never returned.
C14_OneReplyEach ==
    /\ h_recv = Len(h_replies) + (IF owed = None THEN 0 ELSE 1)
    /\ (owed # None) <=> (sock = "send")
    /\ \A i \in 1 .. Len(h_replies) :
          /\ h_replies[i].req \in DecodeExceptions =>
                (h_replies[i].by = "listen" /\ h_replies[i].err = h_replies[i].req)
          /\ h_replies[i].req = "error" =>
                (h_replies[i].by = "listen" /\ h_replies[i].err = "ValueError")
    /\ klast.op = "listen returned" => klast.ret \in {"reload", "a"}
    /\ klast.op # "listen raised"
    /\ (owed # None /\ owed[1] \in DecodeExceptions \cup {"error"}) => kpc = "l31"

\* C14: strict one reply per request.  A request is received only when every
\* earlier one has been replied to; a step sends at most one reply, and only to
\* the request owed; the except clause of listen() sends the reply itself and
\* goes on listening; a request listen() returned is answered by the one
\* result() that finds it owed.
C14_StrictReply ==
    /\ [] C14_OneReplyEach
    /\ [][ h_recv' # h_recv =>
             (h_recv' = h_recv + 1 /\ Len(h_replies) = h_recv /\ owed = None) ]_vars
    /\ [][ h_replies' # h_replies =>
             (owed # None /\ \E r \in [req : {owed[1]}, err : Errs \cup DecodeExceptions \cup
                     {"ZMQError"}, by : {"listen", "caller"}] :
                  h_replies' = Append(h_replies, r)) ]_vars
    /\ [][ kpc = "l31" => (kpc' = "l31" \/ (kpc' = "l24" /\ Len(h_replies') =
                     Len(h_replies) + 1)) ]_vars
    /\ [][ (klast'.op = "result" /\ owed # None /\ ~klast'.raised) =>
             (owed' = None /\ Len(h_replies') = Len(h_replies) + 1) ]_vars
    /\ [][ (klast'.op = "result" /\ klast' # klast /\ owed = None) =>
             (klast'.raised /\ h_replies' = h_replies) ]_vars
    /\ [][ (klast'.op = "result" /\ klast'.raised) => h_replies' = h_replies ]_vars

====
